---- MODULE Spec2Model ----
(***************************************************************************)
(* Model of the scraped-data pipeline: cleaner.py (text cleaning, date     *)
(* standardization, record cleaning) and validator.py (required fields,    *)
(* URL format, content length, record and batch validation).               *)
(*                                                                         *)
(* A Python str is a sequence of characters; a character is a one-letter   *)
(* TLA+ string, or a name for a code point outside printable ASCII:        *)
(*   "TAB" U+0009, "NL" U+000A, "NUL" U+0000, "NBSP" U+00A0,                *)
(*   "FFFD" U+FFFD, "COMB" U+0301 (combining acute), "EACUTE" U+00E9,      *)
(*   "LDQ" U+201C, "RSQ" U+2019, "NDASH" U+2013.                            *)
(* A Python value is a record [kind, str, num, date]: kind is "None",      *)
(* "str", "int" or "datetime".                                             *)
(***************************************************************************)
EXTENDS Integers, Sequences, FiniteSets, TLC

VARIABLES
  t_text, t_flags, t_once, t_twice, t_pc,          \* clean_text applied twice
  d_value, d_format, d_silent, d_result, d_pc,     \* standardize_date
  c_data, c_config, c_cleaned, c_pc,               \* clean_data / clean_record
  v_record, v_config, v_outcome, v_pc,             \* validate_record
  b_data, b_config, b_i, valid_records, invalid_records, b_pc  \* validate_data

t_vars == <<t_text, t_flags, t_once, t_twice, t_pc>>
d_vars == <<d_value, d_format, d_silent, d_result, d_pc>>
c_vars == <<c_data, c_config, c_cleaned, c_pc>>
v_vars == <<v_record, v_config, v_outcome, v_pc>>
b_vars == <<b_data, b_config, b_i, valid_records, invalid_records, b_pc>>
vars == <<t_vars, d_vars, c_vars, v_vars, b_vars>>

----------------------------------------------------------------------------
(* Python values and strings *)

NoneV == [kind |-> "None", str |-> <<>>, num |-> 0, date |-> <<>>]
StrV(s) == [kind |-> "str", str |-> s, num |-> 0, date |-> <<>>]
IntV(n) == [kind |-> "int", str |-> <<>>, num |-> n, date |-> <<>>]
DateV(d) == [kind |-> "datetime", str |-> <<>>, num |-> 0, date |-> d]

Digits == <<"0", "1", "2", "3", "4", "5", "6", "7", "8", "9">>
Digit == {Digits[i] : i \in 1..10}
DigitVal(c) == (CHOOSE i \in 1..10 : Digits[i] = c) - 1

UpperLetters ==
  <<"A","B","C","D","E","F","G","H","I","J","K","L","M",
    "N","O","P","Q","R","S","T","U","V","W","X","Y","Z">>
LowerLetters ==
  <<"a","b","c","d","e","f","g","h","i","j","k","l","m",
    "n","o","p","q","r","s","t","u","v","w","x","y","z">>
Upper == {UpperLetters[i] : i \in 1..26}
Lower == {LowerLetters[i] : i \in 1..26}
Letter == Upper \cup Lower

\* str.lower() on one character and on a string
LowerChar(c) ==
  IF c \in Upper THEN LowerLetters[CHOOSE i \in 1..26 : UpperLetters[i] = c]
  ELSE c
lower(s) == [i \in 1..Len(s) |-> LowerChar(s[i])]

\* decimal rendering of a natural number, as str(int) gives it
RECURSIVE NatStr(_)
NatStr(n) ==
  IF n < 10 THEN <<Digits[n + 1]>>
  ELSE NatStr(n \div 10) \o <<Digits[(n % 10) + 1]>>

\* int(digits)
RECURSIVE StrNat(_)
StrNat(s) ==
  IF s = <<>> THEN 0
  ELSE 10 * StrNat(SubSeq(s, 1, Len(s) - 1)) + DigitVal(s[Len(s)])

\* zero-padded rendering, as %02d / %04d
RECURSIVE Pad(_, _)
Pad(n, width) ==
  LET s == NatStr(n) IN
  IF Len(s) >= width THEN s ELSE <<"0">> \o Pad(n, width - 1)

\* characters for which str.isspace() is true (str.strip() removes them)
Space == {" ", "TAB", "NL", "NBSP"}

\* characters of Unicode general category Cc
Control == {"TAB", "NL", "NUL"}

RECURSIVE lstrip(_)
lstrip(s) ==
  IF s # <<>> /\ s[1] \in Space THEN lstrip(Tail(s)) ELSE s

RECURSIVE rstrip(_)
rstrip(s) ==
  IF s # <<>> /\ s[Len(s)] \in Space THEN rstrip(SubSeq(s, 1, Len(s) - 1))
  ELSE s

\* str.strip()
strip(s) == rstrip(lstrip(s))

\* s with every character of the set gone
RECURSIVE Without(_, _)
Without(s, gone) ==
  IF s = <<>> THEN <<>>
  ELSE (IF s[1] \in gone THEN <<>> ELSE <<s[1]>>) \o Without(Tail(s), gone)

\* number of consecutive characters of the class from position i on
RECURSIVE RunLen(_, _, _)
RunLen(s, i, class) ==
  IF i <= Len(s) /\ s[i] \in class THEN 1 + RunLen(s, i + 1, class) ELSE 0

\* number of consecutive characters outside the class from position i on
RECURSIVE RunLenNot(_, _, _)
RunLenNot(s, i, class) ==
  IF i <= Len(s) /\ s[i] \notin class THEN 1 + RunLenNot(s, i + 1, class)
  ELSE 0

Min(a, b) == IF a < b THEN a ELSE b

RECURSIVE Concat(_)
Concat(ss) == IF ss = <<>> THEN <<>> ELSE ss[1] \o Concat(Tail(ss))

----------------------------------------------------------------------------
(* Text cleaning (cleaner.py) *)

\* html.entities.html5 restricted to the names the model's texts can hold
Html5Names ==
  { <<"a","m","p",";">>, <<"a","m","p">>, <<"l","t",";">>, <<"l","t">>,
    <<"g","t",";">>, <<"g","t">>, <<"n","b","s","p",";">>, <<"n","b","s","p">> }

Html5(name) ==
  CASE name \in {<<"a","m","p",";">>, <<"a","m","p">>} -> <<"&">>
    [] name \in {<<"l","t",";">>, <<"l","t">>} -> <<"<">>
    [] name \in {<<"g","t",";">>, <<"g","t">>} -> <<">">>
    [] OTHER -> <<"NBSP">>

\* the characters a named reference cannot hold: [^\t\n\f <&#;]
NotNameChar == {"TAB", "NL", " ", "<", "&", "#", ";"}

\* length of the text html's _charref matches after an "&" at position i - 1
\* (0: no match). The texts of the model hold no "#", so only the named
\* alternative [^\t\n\f <&#;]{1,32};? can match.
CharrefLen(s, i) ==
  LET n == Min(RunLenNot(s, i, NotNameChar), 32) IN
  IF n = 0 THEN 0
  ELSE IF i + n <= Len(s) /\ s[i + n] = ";" THEN n + 1 ELSE n

\* html._replace_charref for a named reference: the name itself, else its
\* longest proper prefix of at least two characters that is a name
RECURSIVE LongestPrefix(_, _)
LongestPrefix(g, x) ==
  IF x < 2 THEN <<"&">> \o g
  ELSE IF SubSeq(g, 1, x) \in Html5Names
       THEN Html5(SubSeq(g, 1, x)) \o SubSeq(g, x + 1, Len(g))
       ELSE LongestPrefix(g, x - 1)

replace_charref(g) ==
  IF g \in Html5Names THEN Html5(g) ELSE LongestPrefix(g, Len(g) - 1)

RECURSIVE UnescapeFrom(_, _)
UnescapeFrom(s, i) ==
  IF i > Len(s) THEN <<>>
  ELSE IF s[i] # "&" THEN <<s[i]>> \o UnescapeFrom(s, i + 1)
  ELSE LET n == CharrefLen(s, i + 1) IN
       IF n = 0 THEN <<"&">> \o UnescapeFrom(s, i + 1)
       ELSE replace_charref(SubSeq(s, i + 1, i + n))
              \o UnescapeFrom(s, i + n + 1)

\* html.unescape
unescape(s) == UnescapeFrom(s, 1)

\* re.sub(r'<[^>]+>', '', s): at a "<", the greedy run of non-">" characters
\* must be non-empty and end at a ">"
RECURSIVE StripTagsFrom(_, _)
StripTagsFrom(s, i) ==
  IF i > Len(s) THEN <<>>
  ELSE IF s[i] # "<" THEN <<s[i]>> \o StripTagsFrom(s, i + 1)
  ELSE LET n == RunLenNot(s, i + 1, {">"}) IN
       IF n >= 1 /\ i + n + 1 <= Len(s)
       THEN StripTagsFrom(s, i + n + 2)
       ELSE <<"<">> \o StripTagsFrom(s, i + 1)

\* str(value)
PyStr(v) ==
  CASE v.kind = "str" -> v.str
    [] v.kind = "int" -> NatStr(v.num)
    [] v.kind = "None" -> <<"N","o","n","e">>
    [] OTHER ->
         Pad(v.date[1], 4) \o <<"-">> \o Pad(v.date[2], 2) \o <<"-">>
           \o Pad(v.date[3], 2) \o <<" ">> \o Pad(v.date[4], 2) \o <<":">>
           \o Pad(v.date[5], 2) \o <<":">> \o Pad(v.date[6], 2)

remove_html_artifacts(v) ==
  IF v.kind # "str" THEN PyStr(v)
  ELSE StripTagsFrom(unescape(v.str), 1)

\* re.sub of a run of characters of the class by one space
RECURSIVE CollapseRuns(_, _)
CollapseRuns(s, class) ==
  IF s = <<>> THEN <<>>
  ELSE IF s[1] \in class
       THEN <<" ">> \o CollapseRuns(SubSeq(s, 1 + RunLen(s, 1, class), Len(s)),
                                    class)
       ELSE <<s[1]>> \o CollapseRuns(Tail(s), class)

remove_extra_whitespace(v) ==
  IF v.kind # "str" THEN PyStr(v)
  ELSE strip(CollapseRuns(CollapseRuns(v.str, {"TAB", "NL"}), {" "}))

\* unicodedata.normalize('NFC', s) on the model's characters: the only
\* composable pair is e + U+0301
RECURSIVE NFC(_)
NFC(s) ==
  IF s = <<>> THEN <<>>
  ELSE IF Len(s) >= 2 /\ s[1] = "e" /\ s[2] = "COMB"
       THEN <<"EACUTE">> \o NFC(SubSeq(s, 3, Len(s)))
       ELSE <<s[1]>> \o NFC(Tail(s))

mojibake_map(c) ==
  CASE c = "LDQ" -> <<"\"">>
    [] c = "RSQ" -> <<"'">>
    [] c = "NDASH" -> <<"-">>
    [] c = "NBSP" -> <<" ">>
    [] c = "FFFD" -> <<>>
    [] OTHER -> <<c>>

normalize_text_encoding(v) ==
  IF v.kind # "str" THEN PyStr(v)
  ELSE LET n == NFC(v.str) IN Concat([i \in 1..Len(n) |-> mojibake_map(n[i])])

handle_special_characters(v, replace_invalid) ==
  IF v.kind # "str" THEN PyStr(v)
  ELSE LET t == Without(v.str, Control) IN
       IF replace_invalid THEN Without(t, {"FFFD"}) ELSE t

\* flags: [remove_html, normalize_whitespace, normalize_encoding, handle_special]
AllStages ==
  [remove_html |-> TRUE, normalize_whitespace |-> TRUE,
   normalize_encoding |-> TRUE, handle_special |-> TRUE]

\* clean_text with whitespace normalization moved before the special-character
\* stage
clean_text_whitespace_early(v, flags) ==
  IF v.kind = "None" THEN <<>>
  ELSE LET t0 == PyStr(v)
           t1 == IF flags.remove_html THEN remove_html_artifacts(StrV(t0))
                 ELSE t0
           t2 == IF flags.normalize_encoding
                 THEN normalize_text_encoding(StrV(t1)) ELSE t1
           t3 == IF flags.normalize_whitespace
                 THEN remove_extra_whitespace(StrV(t2)) ELSE t2
       IN IF flags.handle_special
          THEN handle_special_characters(StrV(t3), TRUE) ELSE t3

clean_text(v, flags) ==
  IF v.kind = "None" THEN <<>>
  ELSE LET t0 == PyStr(v)
           t1 == IF flags.remove_html THEN remove_html_artifacts(StrV(t0))
                 ELSE t0
           t2 == IF flags.normalize_encoding
                 THEN normalize_text_encoding(StrV(t1)) ELSE t1
           t3 == IF flags.handle_special
                 THEN handle_special_characters(StrV(t2), TRUE) ELSE t2
       IN IF flags.normalize_whitespace
          THEN remove_extra_whitespace(StrV(t3)) ELSE t3


----------------------------------------------------------------------------
(* Date standardization (cleaner.py) *)

\* A strptime / strftime format is a sequence of directives ("%Y", ...) and
\* literal characters. A datetime is <<year, month, day, hour, minute, second>>.
DATE_FORMATS ==
  << <<"%Y","-","%m","-","%d">>,
     <<"%d","/","%m","/","%Y">>,
     <<"%m","/","%d","/","%Y">>,
     <<"%d","-","%m","-","%Y">>,
     <<"%m","-","%d","-","%Y">>,
     <<"%Y","/","%m","/","%d">>,
     <<"%d"," ","%B"," ","%Y">>,
     <<"%d"," ","%b"," ","%Y">>,
     <<"%B"," ","%d",","," ","%Y">>,
     <<"%b"," ","%d",","," ","%Y">>,
     <<"%Y","-","%m","-","%d","T","%H",":","%M",":","%S">>,
     <<"%Y","-","%m","-","%d","T","%H",":","%M",":","%S","Z">>,
     <<"%Y","-","%m","-","%d"," ","%H",":","%M",":","%S">>,
     <<"%d","/","%m","/","%y">>,
     <<"%m","/","%d","/","%y">>,
     <<"%Y","%m","%d">> >>

MonthNames ==
  << <<"J","a","n","u","a","r","y">>,
     <<"F","e","b","r","u","a","r","y">>,
     <<"M","a","r","c","h">>,
     <<"A","p","r","i","l">>,
     <<"M","a","y">>,
     <<"J","u","n","e">>,
     <<"J","u","l","y">>,
     <<"A","u","g","u","s","t">>,
     <<"S","e","p","t","e","m","b","e","r">>,
     <<"O","c","t","o","b","e","r">>,
     <<"N","o","v","e","m","b","e","r">>,
     <<"D","e","c","e","m","b","e","r">> >>

\* the abbreviated month name (%b)
Abbr(name) == SubSeq(name, 1, 3)

IsLeap(y) == (y % 4 = 0 /\ y % 100 # 0) \/ y % 400 = 0

DaysIn(y, m) ==
  IF m = 2 THEN (IF IsLeap(y) THEN 29 ELSE 28)
  ELSE IF m \in {4, 6, 9, 11} THEN 30 ELSE 31

\* s holds the word at position pos, compared case-insensitively
HasWord(s, pos, word) ==
  /\ pos + Len(word) - 1 <= Len(s)
  /\ \A i \in 1..Len(word) : LowerChar(s[pos + i - 1]) = LowerChar(word[i])

\* s holds, at position pos, a character of class a then one of class b
Two(s, pos, a, b) == pos + 1 <= Len(s) /\ s[pos] \in a /\ s[pos + 1] \in b

One(s, pos, a) == pos <= Len(s) /\ s[pos] \in a

Opt(cond, n) == IF cond THEN <<n>> ELSE <<>>

RECURSIVE Down(_)
Down(n) == IF n = 0 THEN <<>> ELSE <<n>> \o Down(n - 1)

D19 == Digit \ {"0"}

\* The lengths the regular expression of a directive (_strptime.TimeRE) or of
\* a literal can consume at position pos, in the order the regex tries them.
Cands(tok, s, pos) ==
  CASE tok = "%Y" -> Opt(RunLen(s, pos, Digit) >= 4, 4)
    [] tok = "%y" -> Opt(RunLen(s, pos, Digit) >= 2, 2)
    [] tok = "%m" ->
         Opt(Two(s, pos, {"1"}, {"0","1","2"}) \/ Two(s, pos, {"0"}, D19), 2)
           \o Opt(One(s, pos, D19), 1)
    [] tok = "%d" ->
         Opt(Two(s, pos, {"3"}, {"0","1"}) \/ Two(s, pos, {"1","2"}, Digit)
               \/ Two(s, pos, {"0"}, D19), 2)
           \o Opt(One(s, pos, D19), 1)
           \o Opt(Two(s, pos, {" "}, D19), 2)
    [] tok = "%H" ->
         Opt(Two(s, pos, {"2"}, {"0","1","2","3"})
               \/ Two(s, pos, {"0","1"}, Digit), 2)
           \o Opt(One(s, pos, Digit), 1)
    [] tok = "%M" ->
         Opt(Two(s, pos, {"0","1","2","3","4","5"}, Digit), 2)
           \o Opt(One(s, pos, Digit), 1)
    [] tok = "%S" ->
         Opt(Two(s, pos, {"6"}, {"0","1"})
               \/ Two(s, pos, {"0","1","2","3","4","5"}, Digit), 2)
           \o Opt(One(s, pos, Digit), 1)
    [] tok = "%B" ->
         Concat([i \in 1..12 |->
                   Opt(HasWord(s, pos, MonthNames[i]), Len(MonthNames[i]))])
    [] tok = "%b" ->
         Opt(\E i \in 1..12 : HasWord(s, pos, Abbr(MonthNames[i])), 3)
    [] tok = " " -> Down(RunLen(s, pos, Space))
    [] OTHER -> Opt(HasWord(s, pos, <<tok>>), 1)

NoMatch == [ok |-> FALSE, lens |-> <<>>]

\* re.match of the format's regular expression: the first way, in the regex's
\* order of preference, to consume a prefix of s; lens[k] is what token k took
RECURSIVE MatchFrom(_, _, _, _)
RECURSIVE FirstOk(_, _, _, _, _, _)
MatchFrom(fmt, k, s, pos) ==
  IF k > Len(fmt) THEN [ok |-> TRUE, lens |-> <<>>]
  ELSE FirstOk(fmt, k, s, pos, Cands(fmt[k], s, pos), 1)
FirstOk(fmt, k, s, pos, cands, j) ==
  IF j > Len(cands) THEN NoMatch
  ELSE LET r == MatchFrom(fmt, k + 1, s, pos + cands[j]) IN
       IF r.ok THEN [ok |-> TRUE, lens |-> <<cands[j]>> \o r.lens]
       ELSE FirstOk(fmt, k, s, pos, cands, j + 1)

RECURSIVE Sum(_)
Sum(ns) == IF ns = <<>> THEN 0 ELSE ns[1] + Sum(Tail(ns))

\* the text token k consumed
Taken(s, lens, k) ==
  SubSeq(s, 1 + Sum(SubSeq(lens, 1, k - 1)), Sum(SubSeq(lens, 1, k)))

\* the value of a directive's text; a directive the format lacks has its
\* default (1900-01-01 00:00:00)
Found(fmt, s, lens, tok, default) ==
  IF \A k \in 1..Len(fmt) : fmt[k] # tok THEN default
  ELSE StrNat(Without(Taken(s, lens, CHOOSE k \in 1..Len(fmt) : fmt[k] = tok),
                      {" "}))

MonthOf(fmt, s, lens) ==
  IF \E k \in 1..Len(fmt) : fmt[k] = "%B"
  THEN CHOOSE i \in 1..12 :
         lower(Taken(s, lens, CHOOSE k \in 1..Len(fmt) : fmt[k] = "%B"))
           = lower(MonthNames[i])
  ELSE IF \E k \in 1..Len(fmt) : fmt[k] = "%b"
  THEN CHOOSE i \in 1..12 :
         lower(Taken(s, lens, CHOOSE k \in 1..Len(fmt) : fmt[k] = "%b"))
           = lower(Abbr(MonthNames[i]))
  ELSE Found(fmt, s, lens, "%m", 1)

\* YearOf with every two-digit year put in the 1900s
YearOf_no_pivot(fmt, s, lens) ==
  IF \E k \in 1..Len(fmt) : fmt[k] = "%y"
  THEN 1900 + Found(fmt, s, lens, "%y", 0)
  ELSE Found(fmt, s, lens, "%Y", 1900)

YearOf(fmt, s, lens) ==
  IF \E k \in 1..Len(fmt) : fmt[k] = "%y"
  THEN LET y == Found(fmt, s, lens, "%y", 0) IN
       IF y <= 68 THEN 2000 + y ELSE 1900 + y
  ELSE Found(fmt, s, lens, "%Y", 1900)

\* a ValueError of strptime
NoDate == <<>>

\* datetime.strptime(s, fmt): the match must consume all of s and give a date
\* the calendar has
strptime(s, fmt) ==
  LET r == MatchFrom(fmt, 1, s, 1) IN
  IF ~r.ok \/ Sum(r.lens) # Len(s) THEN NoDate
  ELSE LET y == YearOf(fmt, s, r.lens)
           m == MonthOf(fmt, s, r.lens)
           d == Found(fmt, s, r.lens, "%d", 1)
           sec == Found(fmt, s, r.lens, "%S", 0)
       IN IF d > DaysIn(y, m) \/ sec > 59 THEN NoDate
          ELSE <<y, m, d, Found(fmt, s, r.lens, "%H", 0),
                 Found(fmt, s, r.lens, "%M", 0), sec>>

StrfToken(dt, tok) ==
  CASE tok = "%Y" -> Pad(dt[1], 4)
    [] tok = "%y" -> Pad(dt[1] % 100, 2)
    [] tok = "%m" -> Pad(dt[2], 2)
    [] tok = "%d" -> Pad(dt[3], 2)
    [] tok = "%H" -> Pad(dt[4], 2)
    [] tok = "%M" -> Pad(dt[5], 2)
    [] tok = "%S" -> Pad(dt[6], 2)
    [] tok = "%B" -> MonthNames[dt[2]]
    [] tok = "%b" -> Abbr(MonthNames[dt[2]])
    [] OTHER -> <<tok>>

\* datetime.strftime(fmt)
strftime(dt, fmt) == Concat([k \in 1..Len(fmt) |-> StrfToken(dt, fmt[k])])

\* TryFormats with the last format that parses winning
RECURSIVE TryFormatsLast(_, _)
TryFormatsLast(v, i) ==
  IF i > Len(DATE_FORMATS) THEN NoDate
  ELSE LET later == TryFormatsLast(v, i + 1) IN
       IF later # NoDate THEN later ELSE strptime(v, DATE_FORMATS[i])

\* the loop over DATE_FORMATS from index i on: the date of the first format
\* that parses v, NoDate if none does
RECURSIVE TryFormats(_, _)
TryFormats(v, i) ==
  IF i > Len(DATE_FORMATS) THEN NoDate
  ELSE LET dt == strptime(v, DATE_FORMATS[i]) IN
       IF dt # NoDate THEN dt ELSE TryFormats(v, i + 1)

\* re.match(r'(\d{4})-(\d{2})-(\d{2})', v)
PrefixMatch(v) ==
  /\ Len(v) >= 10
  /\ \A i \in {1, 2, 3, 4, 6, 7, 9, 10} : v[i] \in Digit
  /\ v[5] = "-" /\ v[8] = "-"

standardize_date(value, output_format, return_none_on_fail) ==
  IF value.kind = "None" \/ value = StrV(<<>>) THEN NoneV
  ELSE IF value.kind = "datetime"
  THEN StrV(strftime(value.date, output_format))
  ELSE LET trimmed == strip(PyStr(value)) IN
       IF trimmed = <<>> THEN NoneV
       ELSE LET v == clean_text(StrV(trimmed), AllStages)
                dt == TryFormats(v, 1)
            IN IF dt # NoDate THEN StrV(strftime(dt, output_format))
               ELSE IF PrefixMatch(v)
               THEN StrV(SubSeq(v, 1, 4) \o <<"-">> \o SubSeq(v, 6, 7)
                           \o <<"-">> \o SubSeq(v, 9, 10))
               ELSE IF return_none_on_fail THEN NoneV
               ELSE StrV(v)

----------------------------------------------------------------------------
(* Record and batch cleaning (cleaner.py) *)

\* A record of the cleaner is the sequence of its <<key, value>> items in
\* insertion order; a key is a sequence of characters.
DEFAULT_TEXT_FIELDS ==
  { <<"n","a","m","e">>,
    <<"t","i","t","l","e">>,
    <<"d","e","s","c","r","i","p","t","i","o","n">>,
    <<"c","a","t","e","g","o","r","y">>,
    <<"e","m","a","i","l">>,
    <<"u","r","l">>,
    <<"c","o","n","t","e","n","t">> }

\* A custom cleaner is a caller's function; the model has two.
ApplyCleaner(cleaner, value) ==
  IF cleaner = "to_none" THEN NoneV ELSE value

\* the cleaned value of one item; no text_fields, date_fields or
\* custom_cleaners is the empty set or function
clean_item(key, value, text_fields, date_fields, custom_cleaners) ==
  LET texts == IF text_fields = {} THEN DEFAULT_TEXT_FIELDS ELSE text_fields
      key_lower == lower(key)
  IN IF key \in DOMAIN custom_cleaners
     THEN ApplyCleaner(custom_cleaners[key], value)
     ELSE IF key_lower \in {lower(f) : f \in date_fields} \/ key \in date_fields
     THEN standardize_date(value, <<"%Y", "-", "%m", "-", "%d">>, TRUE)
     ELSE IF key_lower \in {lower(f) : f \in texts} \/ key \in texts
     THEN (IF value.kind = "str" THEN StrV(clean_text(value, AllStages))
           ELSE value)
     ELSE IF value.kind = "str" THEN StrV(clean_text(value, AllStages))
     ELSE value

clean_record(record, text_fields, date_fields, custom_cleaners) ==
  [i \in 1..Len(record) |->
     <<record[i][1],
       clean_item(record[i][1], record[i][2], text_fields, date_fields,
                  custom_cleaners)>>]

----------------------------------------------------------------------------
(* Validation (validator.py) *)

\* A record of the validator is a function from its keys to values; a key and
\* a field name is a TLA+ string. dict.get(key)
Get(record, key) == IF key \in DOMAIN record THEN record[key] ELSE NoneV

\* field_aliases.get(field, field); the empty function is no aliases
AliasOf(field_aliases, field) ==
  IF field \in DOMAIN field_aliases THEN field_aliases[field] ELSE field

\* A reason is the message's parts: the check's wording, the field it names
\* and the two numbers of the length message.
Reason(kind, field) == [kind |-> kind, field |-> field, length |-> 0, minimum |-> 0]

REQUIRED_FIELDS == {"title", "content", "url"}

\* required is the frozenset in its iteration order
RECURSIVE RequiredErrors(_, _, _)
RequiredErrors(record, required, field_aliases) ==
  IF required = <<>> THEN <<>>
  ELSE LET field == required[1]
           value == Get(record, AliasOf(field_aliases, field))
           rest == RequiredErrors(record, Tail(required), field_aliases)
       IN IF value.kind = "None" \/ value = StrV(<<>>)
          THEN <<Reason("missing required field", field)>> \o rest
          ELSE IF value.kind = "str" /\ strip(value.str) = <<>>
          THEN <<Reason("required field is empty or whitespace-only", field)>>
                 \o rest
          ELSE rest

\* required: the caller's frozenset in iteration order, <<>> for None or empty;
\* default_order: the iteration order of REQUIRED_FIELDS
check_required_fields(record, required, field_aliases, default_order) ==
  RequiredErrors(record, IF required = <<>> THEN default_order ELSE required,
                 field_aliases)

\* the parts of s between the separators
RECURSIVE Split(_, _)
Split(s, sep) ==
  LET n == RunLenNot(s, 1, {sep}) IN
  IF n = Len(s) THEN <<s>>
  ELSE <<SubSeq(s, 1, n)>> \o Split(SubSeq(s, n + 2, Len(s)), sep)

AlNum == Letter \cup Digit

\* [A-Z0-9](?:[A-Z0-9-]{0,61}[A-Z0-9])? under re.IGNORECASE
IsLabel(s) ==
  /\ Len(s) \in 1..63
  /\ s[1] \in AlNum /\ s[Len(s)] \in AlNum
  /\ \A i \in 1..Len(s) : s[i] \in AlNum \cup {"-"}

\* (?:label\.)+[A-Z]{2,6}\.?
IsDomain(h) ==
  LET bare == IF h # <<>> /\ h[Len(h)] = "." THEN SubSeq(h, 1, Len(h) - 1)
              ELSE h
      parts == Split(bare, ".")
      tld == parts[Len(parts)]
  IN /\ Len(parts) >= 2
     /\ Len(tld) \in 2..6 /\ \A i \in 1..Len(tld) : tld[i] \in Letter
     /\ \A k \in 1..(Len(parts) - 1) : IsLabel(parts[k])

\* \d{1,3}\.\d{1,3}\.\d{1,3}\.\d{1,3}
IsDottedQuad(h) ==
  LET parts == Split(h, ".") IN
  /\ Len(parts) = 4
  /\ \A k \in 1..4 : /\ Len(parts[k]) \in 1..3
                     /\ \A i \in 1..Len(parts[k]) : parts[k][i] \in Digit

IsHost(h) ==
  \/ IsDomain(h)
  \/ lower(h) = <<"l","o","c","a","l","h","o","s","t">>
  \/ IsDottedQuad(h)

\* (?::\d+)?(?:/?|[/?]\S+)$
IsPortAndPath(t) ==
  LET digits == IF t # <<>> /\ t[1] = ":" THEN RunLen(t, 2, Digit) ELSE 0
      PathOK(u) ==
        \/ u = <<>>
        \/ u = <<"/">>
        \/ /\ Len(u) >= 2 /\ u[1] \in {"/", "?"}
           /\ \A i \in 2..Len(u) : u[i] \notin Space
  IN \/ PathOK(t)
     \/ \E n \in 1..digits : PathOK(SubSeq(t, n + 2, Len(t)))

SchemeLen(s) ==
  IF HasWord(s, 1, <<"h","t","t","p","s",":","/","/">>) THEN 8
  ELSE IF HasWord(s, 1, <<"h","t","t","p",":","/","/">>) THEN 7
  ELSE 0

\* URL_PATTERN.match(s): some split of what follows the scheme into a host
\* and a port-and-path
URL_PATTERN(s) ==
  LET n == SchemeLen(s) IN
  /\ n > 0
  /\ \E k \in n..Len(s) : /\ IsHost(SubSeq(s, n + 1, k))
                          /\ IsPortAndPath(SubSeq(s, k + 1, Len(s)))

SchemeChars == AlNum \cup {"+", "-", "."}

\* urllib.parse.urlparse(s): the scheme, the netloc, and whether the netloc's
\* brackets make it raise ValueError
urlparse(s) ==
  LET i == RunLenNot(s, 1, {":"}) + 1
      hasScheme == /\ i <= Len(s) /\ i > 1 /\ s[1] \in Letter
                   /\ \A j \in 1..(i - 1) : s[j] \in SchemeChars
      scheme == IF hasScheme THEN lower(SubSeq(s, 1, i - 1)) ELSE <<>>
      rest == IF hasScheme THEN SubSeq(s, i + 1, Len(s)) ELSE s
      hasNetloc == Len(rest) >= 2 /\ rest[1] = "/" /\ rest[2] = "/"
      netloc == IF hasNetloc
                THEN SubSeq(rest, 3, 2 + RunLenNot(rest, 3, {"/", "?", "#"}))
                ELSE <<>>
      open == \E j \in 1..Len(netloc) : netloc[j] = "["
      close == \E j \in 1..Len(netloc) : netloc[j] = "]"
  IN [scheme |-> scheme, netloc |-> netloc, raises |-> open # close]

NoReason == Reason("", "")

validate_url_format(url, field_name) ==
  IF url.kind = "None" \/ url = StrV(<<>>) THEN Reason("missing", field_name)
  ELSE LET url_str == strip(PyStr(url)) IN
       IF url_str = <<>> THEN Reason("is empty", field_name)
       ELSE LET parsed == urlparse(url_str) IN
            IF parsed.raises THEN Reason("invalid URL", field_name)
            ELSE IF parsed.scheme \notin {<<"h","t","t","p">>,
                                          <<"h","t","t","p","s">>}
            THEN Reason("invalid scheme (expected http or https)", field_name)
            ELSE IF parsed.netloc = <<>>
            THEN Reason("missing host/domain", field_name)
            ELSE IF ~URL_PATTERN(url_str)
            THEN Reason("malformed URL format", field_name)
            ELSE NoReason

check_content_length_minimum(value, minimum, field_name) ==
  IF value.kind = "None"
  THEN [kind |-> "missing (need at least minimum chars)", field |-> field_name,
        length |-> 0, minimum |-> minimum]
  ELSE LET length == Len(strip(PyStr(value))) IN
       IF length < minimum
       THEN [kind |-> "too short", field |-> field_name,
             length |-> length, minimum |-> minimum]
       ELSE NoReason

\* str(value).strip() is non-empty
NonBlank(value) == value.kind # "None" /\ strip(PyStr(value)) # <<>>

\* A configuration of the validator: [required, default_order, field_aliases,
\* url_field, content_field, content_min_length].
NoAliases == [f \in {} |-> ""]

\* field_aliases.get('url', url_field) if field_aliases else url_field
url_key(config) ==
  IF DOMAIN config.field_aliases # {}
  THEN (IF "url" \in DOMAIN config.field_aliases
        THEN config.field_aliases["url"] ELSE config.url_field)
  ELSE config.url_field

\* field_aliases.get('content', content_field) if field_aliases else content_field
content_key(config) ==
  IF DOMAIN config.field_aliases # {}
  THEN (IF "content" \in DOMAIN config.field_aliases
        THEN config.field_aliases["content"] ELSE config.content_field)
  ELSE config.content_field

\* url_reasons without the test that the value is present and non-blank
url_reasons_unguarded(record, config) ==
  LET url_error == validate_url_format(Get(record, url_key(config)),
                                       config.url_field)
  IN IF url_error # NoReason THEN <<url_error>> ELSE <<>>

\* the reasons the URL check adds
url_reasons(record, config) ==
  LET url_value == Get(record, url_key(config)) IN
  IF NonBlank(url_value)
  THEN LET url_error == validate_url_format(url_value, config.url_field) IN
       IF url_error # NoReason THEN <<url_error>> ELSE <<>>
  ELSE <<>>

\* the reasons the content-length check adds
content_reasons(record, config) ==
  LET content_value == Get(record, content_key(config)) IN
  IF NonBlank(content_value)
  THEN LET length_error ==
             check_content_length_minimum(content_value,
                                          config.content_min_length,
                                          config.content_field)
       IN IF length_error # NoReason THEN <<length_error>> ELSE <<>>
  ELSE <<>>

\* validate_record stopping after a failed required-fields check
validate_record_short_circuit(record, config) ==
  LET required ==
        check_required_fields(record, config.required, config.field_aliases,
                              config.default_order)
      reasons == IF required # <<>> THEN required
                 ELSE url_reasons(record, config)
                        \o content_reasons(record, config)
  IN [is_valid |-> Len(reasons) = 0, reasons |-> reasons]

validate_record(record, config) ==
  LET reasons ==
        check_required_fields(record, config.required, config.field_aliases,
                              config.default_order)
          \o url_reasons(record, config)
          \o content_reasons(record, config)
  IN [is_valid |-> Len(reasons) = 0, reasons |-> reasons]

\* validate_data_step counting the records from one
validate_data_step_from_one(data, config, i, valid, invalid) ==
  LET record == data[i + 1]
      outcome == validate_record(record, config)
  IN IF outcome.is_valid
     THEN [valid |-> Append(valid, record), invalid |-> invalid]
     ELSE [valid |-> valid,
           invalid |-> Append(invalid, [index |-> i + 1, record |-> record,
                                        reasons |-> outcome.reasons])]

\* one iteration of validate_data's loop: the lists after record i
validate_data_step(data, config, i, valid, invalid) ==
  LET record == data[i + 1]
      outcome == validate_record(record, config)
  IN IF outcome.is_valid
     THEN [valid |-> Append(valid, record), invalid |-> invalid]
     ELSE [valid |-> valid,
           invalid |-> Append(invalid, [index |-> i, record |-> record,
                                        reasons |-> outcome.reasons])]

----------------------------------------------------------------------------
(* Idle values of the variables of the components a specification leaves out *)

TextIdle ==
  /\ t_text = NoneV /\ t_flags = AllStages
  /\ t_once = <<>> /\ t_twice = <<>> /\ t_pc = "idle"

DateIdle ==
  /\ d_value = NoneV /\ d_format = <<>> /\ d_silent = TRUE
  /\ d_result = NoneV /\ d_pc = "idle"

CleanIdle ==
  /\ c_data = <<>> /\ c_config = <<>> /\ c_cleaned = <<>> /\ c_pc = "idle"

RecordIdle ==
  /\ v_record = <<>> /\ v_config = <<>> /\ v_outcome = <<>> /\ v_pc = "idle"

BatchIdle ==
  /\ b_data = <<>> /\ b_config = <<>> /\ b_i = 0
  /\ valid_records = <<>> /\ invalid_records = <<>> /\ b_pc = "idle"

----------------------------------------------------------------------------
(* clean_text applied to a text, then to its own result *)

\* the most pieces a text is made of
MaxPieces == 3

Pieces ==
  << <<"&","a","m","p",";">>, <<"l","t",";">>, <<"<","b",">">>, <<"<">>,
     <<"x">>, <<" ">>, <<"TAB">>, <<"e">>, <<"COMB">>, <<"NUL">>,
     <<"NBSP">>, <<"LDQ">> >>

RECURSIVE TextsOf(_)
TextsOf(n) ==
  IF n = 0 THEN {<<>>}
  ELSE LET shorter == TextsOf(n - 1) IN
       shorter \cup {t \o Pieces[i] : t \in shorter, i \in 1..Len(Pieces)}

Texts == TextsOf(MaxPieces)

FlagChoices ==
  { AllStages,
    [AllStages EXCEPT !.remove_html = FALSE],
    [AllStages EXCEPT !.normalize_encoding = FALSE, !.handle_special = FALSE] }

InitText ==
  /\ t_text \in {StrV(t) : t \in Texts} \cup {NoneV, IntV(42)}
  /\ t_flags \in FlagChoices
  /\ t_once = <<>> /\ t_twice = <<>> /\ t_pc = "start"
  /\ DateIdle /\ CleanIdle /\ RecordIdle /\ BatchIdle

CleanOnce ==
  /\ t_pc = "start"
  /\ t_once' = clean_text(t_text, t_flags)
  /\ t_pc' = "once"
  /\ UNCHANGED <<t_text, t_flags, t_twice, d_vars, c_vars, v_vars, b_vars>>

CleanTwice ==
  /\ t_pc = "once"
  /\ t_twice' = clean_text(StrV(t_once), t_flags)
  /\ t_pc' = "twice"
  /\ UNCHANGED <<t_text, t_flags, t_once, d_vars, c_vars, v_vars, b_vars>>

NextText == CleanOnce \/ CleanTwice

SpecText == InitText /\ [][NextText]_vars

----------------------------------------------------------------------------
(* standardize_date applied to one value *)

ISO == <<"%Y", "-", "%m", "-", "%d">>

OutputFormats == {ISO, <<"%d", "/", "%m", "/", "%Y">>}

SampleDates ==
  { <<2025, 2, 5, 10, 0, 0>>, <<2025, 4, 3, 0, 0, 0>>, <<2025, 2, 13, 8, 30, 0>>,
    <<2024, 2, 29, 0, 0, 0>>, <<1999, 12, 31, 23, 59, 59>>,
    <<2025, 5, 5, 12, 0, 0>>, <<1950, 7, 20, 0, 0, 0>> }

Decorations == {"plain", "tagged", "padded", "trailing"}

Decorate(s, how) ==
  CASE how = "tagged" -> <<"<","b",">">> \o s \o <<"<","/","b",">">>
    [] how = "padded" -> <<" ", "NBSP">> \o s \o <<"NL">>
    [] how = "trailing" -> s \o <<"x">>
    [] OTHER -> s

\* further strings: markup and entities around no date, dates the calendar
\* lacks, a date followed by a zone offset, one-digit and space-padded fields
OtherDates ==
  { <<"n","/","a"," "," ","<","b",">","t","b","d","<","/","b",">">>,
    <<"5"," ","&","a","m","p",";"," ","6">>,
    <<"2","0","2","5","-","1","3","-","4","5">>,
    <<"2","0","2","5","-","0","2","-","3","0">>,
    <<"2","0","2","5","-","0","2","-","0","5","T","1","0",":","0","0",":","0",
      "0","+","0","1",":","0","0">>,
    <<"0","2","/"," ","5","/","2","0","2","5">>,
    <<"5","/","2","/","2","0","2","5">>,
    <<"<","b",">","<","/","b",">">> }

DateValues ==
  {NoneV, StrV(<<>>), StrV(<<" ", " ">>), IntV(20250205)}
    \cup {DateV(d) : d \in SampleDates}
    \cup {StrV(j) : j \in OtherDates}
    \cup {StrV(Decorate(strftime(d, DATE_FORMATS[i]), how)) :
            d \in SampleDates, i \in 1..Len(DATE_FORMATS), how \in Decorations}

InitDate ==
  /\ d_value \in DateValues
  /\ d_format \in OutputFormats
  /\ d_silent \in BOOLEAN
  /\ d_result = NoneV /\ d_pc = "start"
  /\ TextIdle /\ CleanIdle /\ RecordIdle /\ BatchIdle

Standardize ==
  /\ d_pc = "start"
  /\ d_result' = standardize_date(d_value, d_format, d_silent)
  /\ d_pc' = "done"
  /\ UNCHANGED <<d_value, d_format, d_silent, t_vars, c_vars, v_vars, b_vars>>

NextDate == Standardize

SpecDate == InitDate /\ [][NextDate]_vars

----------------------------------------------------------------------------
(* validate_record applied to one record *)

UrlValues ==
  {NoneV, IntV(0)} \cup
  { StrV(<<>>),
    StrV(<<" "," ">>),
    StrV(<<"n","o","t","-","a","-","u","r","l">>),
    StrV(<<"h","t","t","p",":","/","/","a",".","c","o">>),
    StrV(<<"f","t","p",":","/","/","a",".","c","o">>),
    StrV(<<"h","t","t","p",":","/","/">>),
    StrV(<<"h","t","t","p",":","/","/","a">>),
    StrV(<<"H","T","T","P","S",":","/","/","A",".","C","O",":","8","0","/","p","?","q">>),
    StrV(<<"h","t","t","p",":","/","/","[","a">>),
    StrV(<<"h","t","t","p",":","/","/","1",".","2",".","3",".","4","/","x"," ","y">>) }

ContentValues ==
  {NoneV, IntV(7)} \cup
  { StrV(<<>>), StrV(<<" ">>), StrV(<<"h","i">>), StrV(<<"h","e","l","l","o">>) }

\* the records: at most one field of each of the three kinds
Entry(key, value) == [k \in {key} |-> value]

TitleFields == {NoAliases, Entry("title", StrV(<<"T">>))}

UrlFields ==
  {NoAliases} \cup {Entry(k, v) : k \in {"url", "link", "href"}, v \in UrlValues}

ContentFields ==
  {NoAliases} \cup {Entry(k, v) : k \in {"content", "body"}, v \in ContentValues}

Records == {t @@ u @@ c : t \in TitleFields, u \in UrlFields, c \in ContentFields}

Orders(S) ==
  {p \in [1..Cardinality(S) -> S] : \A i, j \in 1..Cardinality(S) :
                                       i # j => p[i] # p[j]}

AliasChoices ==
  { NoAliases, Entry("url", "link"), Entry("content", "body"),
    Entry("href", "link"), Entry("url", "link") @@ Entry("content", "body") }

Configs ==
  { [required |-> r, default_order |-> o, field_aliases |-> a, url_field |-> u,
     content_field |-> c, content_min_length |-> m] :
      r \in {<<>>}, o \in Orders(REQUIRED_FIELDS), a \in AliasChoices,
      u \in {"url", "href"}, c \in {"content", "body"}, m \in {1, 3} }
  \cup
  { [required |-> <<"href", "title">>, default_order |-> <<"title", "content", "url">>,
     field_aliases |-> a, url_field |-> u, content_field |-> c,
     content_min_length |-> m] :
      a \in AliasChoices, u \in {"url", "href"}, c \in {"content", "body"},
      m \in {1, 3} }

NoOutcome == [is_valid |-> FALSE, reasons |-> <<>>]

InitRecord ==
  /\ v_record \in Records
  /\ v_config \in Configs
  /\ v_outcome = NoOutcome /\ v_pc = "start"
  /\ TextIdle /\ DateIdle /\ CleanIdle /\ BatchIdle

ValidateRecord ==
  /\ v_pc = "start"
  /\ v_outcome' = validate_record(v_record, v_config)
  /\ v_pc' = "done"
  /\ UNCHANGED <<v_record, v_config, t_vars, d_vars, c_vars, b_vars>>

NextRecord == ValidateRecord

SpecRecord == InitRecord /\ [][NextRecord]_vars

----------------------------------------------------------------------------
(* validate_data over a batch *)

\* the most records a batch holds
MaxBatch == 3

BatchRecords ==
  { Entry("title", StrV(<<"T">>)) @@ Entry("url", StrV(<<"h","t","t","p",":","/","/","a",".","c","o">>))
      @@ Entry("content", StrV(<<"h","i">>)),
    Entry("title", StrV(<<"T">>)) @@ Entry("link", StrV(<<"h","t","t","p",":","/","/","a",".","c","o">>))
      @@ Entry("content", StrV(<<"h","i">>)),
    Entry("url", StrV(<<"n","o","t","-","a","-","u","r","l">>)),
    Entry("title", StrV(<<"T">>)) @@ Entry("url", StrV(<<"h","t","t","p",":","/","/","a",".","c","o">>))
      @@ Entry("content", StrV(<<" ">>)),
    NoAliases }

RECURSIVE BatchesOf(_)
BatchesOf(n) ==
  IF n = 0 THEN {<<>>}
  ELSE LET shorter == BatchesOf(n - 1) IN
       shorter \cup {Append(b, r) : b \in shorter, r \in BatchRecords}

BatchConfigs ==
  { [required |-> <<>>, default_order |-> o, field_aliases |-> a,
     url_field |-> "url", content_field |-> "content", content_min_length |-> m] :
      o \in {<<"title", "content", "url">>, <<"url", "title", "content">>},
      a \in {NoAliases, Entry("url", "link")}, m \in {1, 3} }

Init ==
  /\ b_data \in BatchesOf(MaxBatch)
  /\ b_config \in BatchConfigs
  /\ b_i = 0 /\ valid_records = <<>> /\ invalid_records = <<>>
  /\ b_pc = "loop"
  /\ TextIdle /\ DateIdle /\ CleanIdle /\ RecordIdle

\* the body of the loop for record b_i
ValidateNext ==
  /\ b_pc = "loop" /\ b_i < Len(b_data)
  /\ LET r == validate_data_step(b_data, b_config, b_i, valid_records,
                                 invalid_records)
     IN valid_records' = r.valid /\ invalid_records' = r.invalid
  /\ b_i' = b_i + 1
  /\ UNCHANGED <<b_data, b_config, b_pc, t_vars, d_vars, c_vars, v_vars>>

\* return valid_records, invalid_records
Return ==
  /\ b_pc = "loop" /\ b_i = Len(b_data)
  /\ b_pc' = "done"
  /\ UNCHANGED <<b_data, b_config, b_i, valid_records, invalid_records,
                 t_vars, d_vars, c_vars, v_vars>>

Next == ValidateNext \/ Return

Spec == Init /\ [][Next]_vars

----------------------------------------------------------------------------
(* clean_data over one record or a list of records *)

\* the most records a list to clean holds
MaxRecords == 2

Items ==
  { <<<<"t","i","t","l","e">>, StrV(<<" ","<","b",">","H","i","<","/","b",">"," "," ","y","o","u"," ">>)>>, <<<<"t","i","t","l","e">>, IntV(42)>>, <<<<"t","i","t","l","e">>, NoneV>>,
    <<<<"T","i","t","l","e">>, IntV(42)>>, <<<<"T","i","t","l","e">>, StrV(<<" ","<","b",">","H","i","<","/","b",">"," "," ","y","o","u"," ">>)>>,
    <<<<"v","i","e","w","s">>, IntV(7)>>, <<<<"n","o","t","e">>, StrV(<<"a"," "," ","b">>)>>, <<<<"n","o","t","e">>, IntV(7)>>,
    <<<<"d","a","t","e">>, StrV(<<"0","5","/","0","2","/","2","0","2","5">>)>>, <<<<"d","a","t","e">>, IntV(20250205)>>,
    <<<<"D","A","T","E">>, DateV(<<2025, 2, 5, 10, 0, 0>>)>>, <<<<"D","A","T","E">>, StrV(<<"F","e","b"," ","0","5",","," ","2","0","2","5">>)>> }

CleanRecords ==
  {<<>>} \cup {<<f>> : f \in Items}
    \cup {<<f, g>> : f \in {<<<<"t","i","t","l","e">>, StrV(<<" ","<","b",">","H","i","<","/","b",">"," "," ","y","o","u"," ">>)>>, <<<<"T","i","t","l","e">>, IntV(42)>>},
                     g \in {<<<<"v","i","e","w","s">>, IntV(7)>>, <<<<"d","a","t","e">>, StrV(<<"0","5","/","0","2","/","2","0","2","5">>)>>}}

RECURSIVE ListsOf(_)
ListsOf(n) ==
  IF n = 0 THEN {<<>>}
  ELSE LET shorter == ListsOf(n - 1) IN
       shorter \cup {Append(l, r) : l \in shorter, r \in CleanRecords}

\* data is one record (a dict) or a list of records
CleanInputs ==
  {[is_dict |-> TRUE, records |-> <<r>>] : r \in CleanRecords}
    \cup {[is_dict |-> FALSE, records |-> l] : l \in ListsOf(MaxRecords)}

NoCleaners == [k \in {} |-> ""]

CleanConfigs ==
  [ text_fields : {{}, {<<"T","i","t","l","e">>}, {<<"n","o","t","e">>}},
    date_fields : {{}, {<<"d","a","t","e">>}, {<<"D","A","T","E">>}},
    custom_cleaners : {NoCleaners, [k \in {<<"t","i","t","l","e">>} |-> "to_none"],
                       [k \in {<<"v","i","e","w","s">>} |-> "identity"]} ]

InitClean ==
  /\ c_data \in CleanInputs
  /\ c_config \in CleanConfigs
  /\ c_cleaned = <<>> /\ c_pc = "loop"
  /\ TextIdle /\ DateIdle /\ RecordIdle /\ BatchIdle

\* the next element of clean_data's list comprehension
CleanNext ==
  /\ c_pc = "loop" /\ Len(c_cleaned) < Len(c_data.records)
  /\ c_cleaned' =
       Append(c_cleaned,
              clean_record(c_data.records[Len(c_cleaned) + 1],
                           c_config.text_fields, c_config.date_fields,
                           c_config.custom_cleaners))
  /\ UNCHANGED <<c_data, c_config, c_pc, t_vars, d_vars, v_vars, b_vars>>

CleanReturn ==
  /\ c_pc = "loop" /\ Len(c_cleaned) = Len(c_data.records)
  /\ c_pc' = "done"
  /\ UNCHANGED <<c_data, c_config, c_cleaned, t_vars, d_vars, v_vars, b_vars>>

NextClean == CleanNext \/ CleanReturn

SpecClean == InitClean /\ [][NextClean]_vars

----------------------------------------------------------------------------
(* Properties *)

\* the items of data at the positions (from 0) outside the set, in order
RECURSIVE Others(_, _, _)
Others(data, n, indices) ==
  IF n = 0 THEN <<>>
  ELSE Others(data, n - 1, indices)
         \o (IF (n - 1) \in indices THEN <<>> ELSE <<data[n]>>)

\* C1: validate_data puts each record of the batch in exactly one of the two
\* lists: the lengths add up to the number of records, every invalid entry
\* holds the record's position in the batch (so the indices are distinct and in
\* [0, len(input))), and the valid list is the rest of the batch in order.
BatchPartition ==
  LET indices == {invalid_records[k].index : k \in 1..Len(invalid_records)} IN
  /\ Len(valid_records) + Len(invalid_records) = b_i
  /\ b_pc = "done" => Len(valid_records) + Len(invalid_records) = Len(b_data)
  /\ \A k \in 1..Len(invalid_records) :
       /\ invalid_records[k].index \in 0..(Len(b_data) - 1)
       /\ invalid_records[k].record = b_data[invalid_records[k].index + 1]
  /\ \A j, k \in 1..Len(invalid_records) :
       j # k => invalid_records[j].index # invalid_records[k].index
  /\ valid_records = Others(b_data, b_i, indices)

\* a finished batch whose invalid entries are not at their own list positions
BatchPartitionWitness ==
  /\ b_pc = "done" /\ Len(b_data) = 3
  /\ Len(valid_records) >= 1 /\ Len(invalid_records) >= 2
  /\ \E k \in 1..Len(invalid_records) : invalid_records[k].index # k - 1

UrlCheckKinds ==
  {"missing", "is empty", "invalid URL", "invalid scheme (expected http or https)",
   "missing host/domain", "malformed URL format"}

ContentCheckKinds == {"missing (need at least minimum chars)", "too short"}

KindsIn(reasons, kinds) == {k \in 1..Len(reasons) : reasons[k].kind \in kinds}

IsDefaults(config) ==
  /\ config.required = <<>> /\ config.field_aliases = NoAliases
  /\ config.url_field = "url" /\ config.content_field = "content"
  /\ config.content_min_length = 1

NotAUrl == Entry("url", StrV(<<"n","o","t","-","a","-","u","r","l">>))

\* C2: validate_record emits a URL-format reason only when the value of the
\* URL field is present and non-blank, and a content-length reason only when
\* the value of the content field is; {"url": "not-a-url"} with the defaults
\* gets exactly three reasons: title missing, content missing, and one
\* URL-format reason for url.
ChecksOnlyWhenPresent ==
  v_pc = "done" =>
    LET reasons == v_outcome.reasons IN
    /\ ~NonBlank(Get(v_record, url_key(v_config)))
         => KindsIn(reasons, UrlCheckKinds) = {}
    /\ ~NonBlank(Get(v_record, content_key(v_config)))
         => KindsIn(reasons, ContentCheckKinds) = {}
    /\ (v_record = NotAUrl /\ IsDefaults(v_config))
         => /\ Len(reasons) = 3
            /\ {reasons[k] : k \in 1..3}
                 = { Reason("missing required field", "title"),
                     Reason("missing required field", "content"),
                     Reason("invalid scheme (expected http or https)", "url") }

ChecksOnlyWhenPresentWitness ==
  /\ v_pc = "done" /\ v_record = NotAUrl /\ IsDefaults(v_config)
  /\ Len(v_outcome.reasons) = 3

\* record with key k renamed to c
Rename(record, k, c) ==
  [x \in (DOMAIN record \ {k}) \cup {c} |-> IF x = c THEN record[k] ELSE record[x]]

Unalias(field_aliases, c) ==
  [x \in DOMAIN field_aliases \ {c} |-> field_aliases[x]]

\* C3: for the URL field or the content field named c and an alias c -> k, a
\* record keyed k validated with the alias has the outcome of the same record
\* keyed c validated without that alias.
AliasConsistency ==
  v_pc = "done" =>
    \A c \in {v_config.url_field, v_config.content_field} :
      ( /\ c \in DOMAIN v_config.field_aliases
        /\ v_config.field_aliases[c] \in DOMAIN v_record
        /\ c \notin DOMAIN v_record )
      => v_outcome =
           validate_record(
             Rename(v_record, v_config.field_aliases[c], c),
             [v_config EXCEPT !.field_aliases = Unalias(@, c)])

\* C4: is_valid is true exactly when reasons is empty, and reasons holds every
\* reason of the required-fields check and the reason of each URL and
\* content-length check that applies, whatever the earlier checks found.
ReasonsAccumulate ==
  v_pc = "done" =>
    LET reasons == v_outcome.reasons
        Among(x) == \E k \in 1..Len(reasons) : reasons[k] = x
        required == check_required_fields(v_record, v_config.required,
                                          v_config.field_aliases,
                                          v_config.default_order)
        url_value == Get(v_record, url_key(v_config))
        content_value == Get(v_record, content_key(v_config))
        url_error == validate_url_format(url_value, v_config.url_field)
        length_error ==
          check_content_length_minimum(content_value,
                                       v_config.content_min_length,
                                       v_config.content_field)
    IN /\ v_outcome.is_valid <=> reasons = <<>>
       /\ \A k \in 1..Len(required) : Among(required[k])
       /\ (NonBlank(url_value) /\ url_error # NoReason) => Among(url_error)
       /\ (NonBlank(content_value) /\ length_error # NoReason)
            => Among(length_error)

\* an invalid record with a required-fields reason, a URL reason and a length
\* reason at once
ReasonsAccumulateWitness ==
  /\ v_pc = "done" /\ ~v_outcome.is_valid
  /\ KindsIn(v_outcome.reasons, {"missing required field"}) # {}
  /\ KindsIn(v_outcome.reasons, UrlCheckKinds) # {}
  /\ KindsIn(v_outcome.reasons, ContentCheckKinds) # {}

IsoDate(dt) == StrV(strftime(dt, ISO))

\* the formats that parse s
Parsing(s) ==
  {j \in 1..Len(DATE_FORMATS) : strptime(s, DATE_FORMATS[j]) # NoDate}

First(S) == CHOOSE j \in S : \A k \in S : j <= k

HasYear(fmt) == \E k \in 1..Len(fmt) : fmt[k] = "%Y"

FifthOfFebruary == <<2025, 2, 5, 10, 0, 0>>

\* C6 as stated: the string each pattern makes of a sample date standardizes
\* to the ISO date of that sample date.
RoundTrip ==
  (d_pc = "done" /\ d_format = ISO) =>
    \A d \in SampleDates, i \in 1..Len(DATE_FORMATS) :
      d_value = StrV(strftime(d, DATE_FORMATS[i])) => d_result = IsoDate(d)

\* the years a two-digit year stands for
TwoDigitYears == {y \in 1900..2100 : YearOf(<<"%y">>, Pad(y % 100, 2), <<2>>) = y}

\* C6 as amended: the string a pattern makes of a sample date standardizes to
\* the date that the first pattern of the list parsing the string reads. This
\* is the sample date when the pattern is itself that first pattern and the
\* pattern writes the year in full or the year is one a two-digit year stands
\* for. For 5 February 2025 every pattern gives 2025-02-05 but the month-first
\* patterns %m/%d/%Y, %m-%d-%Y and %m/%d/%y, which give 2025-05-02.
RoundTripUnlessEarlier ==
  (d_pc = "done" /\ d_format = ISO) =>
    \A d \in SampleDates, i \in 1..Len(DATE_FORMATS) :
      LET s == strftime(d, DATE_FORMATS[i])
          p == First(Parsing(s))
      IN d_value = StrV(s) =>
        /\ d_result = IsoDate(strptime(s, DATE_FORMATS[p]))
        /\ (p = i /\ (HasYear(DATE_FORMATS[i]) \/ d[1] \in TwoDigitYears))
             => d_result = IsoDate(d)
        /\ d = FifthOfFebruary =>
             d_result = IF i \in {3, 5, 15} THEN IsoDate(<<2025, 5, 2, 0, 0, 0>>)
                        ELSE IsoDate(d)

\* "2025-02-05T10:00:00Z", of the twelfth pattern, standardized
RoundTripWitness ==
  /\ d_pc = "done" /\ d_format = ISO
  /\ d_value = StrV(strftime(FifthOfFebruary, DATE_FORMATS[12]))
  /\ d_result = IsoDate(FifthOfFebruary)

\* the string standardize_date matches the patterns against
Cleaned(value) == clean_text(StrV(strip(PyStr(value))), AllStages)

ThirdOfApril == StrV(<<"0","3","/","0","4","/","2","0","2","5">>)

\* C7: the result is the one of the first pattern, in list order, that parses
\* the whole cleaned string, whatever later patterns would read;
\* "03/04/2025" gives "2025-04-03".
FirstPatternWins ==
  (d_pc = "done" /\ d_value.kind = "str") =>
    LET s == Cleaned(d_value) IN
    /\ (strip(d_value.str) # <<>> /\ Parsing(s) # {})
         => d_result = StrV(strftime(strptime(s, DATE_FORMATS[First(Parsing(s))]),
                                     d_format))
    /\ (d_value = ThirdOfApril /\ d_format = ISO)
         => d_result = StrV(<<"2","0","2","5","-","0","4","-","0","3">>)

\* "03/04/2025", which the day-first and the month-first pattern both parse
FirstPatternWinsWitness ==
  /\ d_pc = "done" /\ d_value = ThirdOfApril /\ d_format = ISO
  /\ Cardinality(Parsing(d_value.str)) >= 2
  /\ d_result = StrV(<<"2","0","2","5","-","0","4","-","0","3">>)

\* the date standardize_date recognizes in a value: a datetime's own, the
\* first parsing pattern's, or the one of a leading YYYY-MM-DD
Recognized(value) ==
  IF value.kind = "datetime" THEN value.date
  ELSE IF value.kind = "None" \/ strip(PyStr(value)) = <<>> THEN NoDate
  ELSE LET s == Cleaned(value) IN
       IF Parsing(s) # {} THEN strptime(s, DATE_FORMATS[First(Parsing(s))])
       ELSE IF PrefixMatch(s)
       THEN <<StrNat(SubSeq(s, 1, 4)), StrNat(SubSeq(s, 6, 7)),
              StrNat(SubSeq(s, 9, 10)), 0, 0, 0>>
       ELSE NoDate

\* C8: a recognized date is returned rendered with output_format, whether it
\* came from a datetime, a pattern or the YYYY-MM-DD prefix.
RenderedWithOutputFormat ==
  (d_pc = "done" /\ Recognized(d_value) # NoDate) =>
    d_result = StrV(strftime(Recognized(d_value), d_format))

\* the items of a record that are classified as Text
IsTextItem(key, config) ==
  LET texts == IF config.text_fields = {} THEN DEFAULT_TEXT_FIELDS
               ELSE config.text_fields
  IN /\ key \notin DOMAIN config.custom_cleaners
     /\ key \notin config.date_fields
     /\ lower(key) \notin {lower(f) : f \in config.date_fields}
     /\ (key \in texts \/ lower(key) \in {lower(f) : f \in texts})

\* C9: the cleaned value of every Text field is a string: the stringified
\* value put through the full text pipeline.
TextFieldsCleaned ==
  \A n \in 1..Len(c_cleaned) : \A i \in 1..Len(c_cleaned[n]) :
    IsTextItem(c_cleaned[n][i][1], c_config) =>
      /\ c_cleaned[n][i][2].kind = "str"
      /\ c_cleaned[n][i][2]
           = StrV(clean_text(c_data.records[n][i][2], AllStages))

\* C10: for an input that is not blank and that no pattern and no YYYY-MM-DD
\* prefix matches, the result is null when return_none_on_fail is true and
\* otherwise the input string, trimmed and nothing else.
FailureKeepsInput ==
  ( /\ d_pc = "done" /\ d_value.kind = "str" /\ strip(d_value.str) # <<>>
    /\ Parsing(Cleaned(d_value)) = {} /\ ~PrefixMatch(Cleaned(d_value)) )
  => d_result = IF d_silent THEN NoneV ELSE StrV(strip(d_value.str))

====
